---- MODULE Spec2Model ----
(***************************************************************************)
(* MoleQueue main window: request routing (queueListRequested,             *)
(* jobSubmissionRequested, jobCancellationRequested) and startup           *)
(* arbitration (handleServerError), after src/molequeue/mainwindow.cpp.    *)
(* The collaborators whose code is elsewhere (Server, ServerConnection,    *)
(* QueueManager, Queue, JobManager) appear only through the calls the      *)
(* main window makes on them.  Signals are delivered by direct call: once  *)
(* a signal is emitted, the slot connected to it runs before anything      *)
(* else does.                                                              *)
(***************************************************************************)
EXTENDS Integers, Sequences, FiniteSets, TLC

(***************************************************************************)
(* Bounds                                                                  *)
(***************************************************************************)
MaxConns == 2
MaxJobs == 2

\* Connections are numbered in the order the server accepts them.
Conns == 1..MaxConns
\* sender() of a slot invocation that is not a ServerConnection
NoConn == 0
Senders == Conns \cup {NoConn}

QueueNames == {"local", "remote"}
\* a NULL Job*
NULL == 0
\* a NULL Queue* (queues are known by their names)
NullQueue == "NULL"

AddressInUseError == "AddressInUseError"
OtherError == "OtherError"
NoError == "NoError"
SocketErrors == {AddressInUseError, OtherError}

InvalidQueue == "InvalidQueue"

VARIABLES
  constructed,    \* the constructor body (lines 60-67) has run
  errorConnected, \* connectionError -> handleServerError is connected
  connConnected,  \* newConnection -> newConnection is connected
  listening,      \* m_server holds the listening endpoint
  appState,       \* "running", "exiting" (qApp->exit), "crashed"
  visible,        \* QMainWindow visibility
  decisions,      \* decisions taken at the conflict prompt, in order
  open,           \* connections the server has accepted
  registered,     \* connections whose request signals are connected
  queues,         \* names held by m_server->queueManager()
  jobs,           \* m_server->jobManager(): Job objects, by pointer
  idCounter,      \* last MoleQueue id handed out
  accepted,       \* ids carried by the SubmissionAccepted responses so far
  signal,         \* the signal being emitted, its slot not yet run
  last            \* the most recent slot invocation and what it did

vars == <<constructed, errorConnected, connConnected, listening, appState,
          visible, decisions, open, registered, queues, jobs, idCounter, accepted,
          signal, last>>

arbiterVars == <<listening, appState, visible, decisions>>
ctorVars == <<constructed, errorConnected, connConnected>>
directoryVars == <<queues, jobs, idCounter>>

Range(s) == {s[i] : i \in 1..Len(s)}

NoSignal == [name |-> "none"]
None == [kind |-> "None"]

\* The event loop is free to take the next event.
Idle == constructed /\ appState = "running" /\ signal = NoSignal

\* The slot was entered for this sender and did these things, in this order.
Call(name, sender, request, effects, completed) ==
  [op |-> name, sender |-> sender, request |-> request, effects |-> effects,
   completed |-> completed]

NoCall == Call("none", NoConn, None, <<>>, TRUE)

Init ==
  /\ constructed = FALSE
  /\ errorConnected = FALSE
  /\ connConnected = FALSE
  /\ listening = FALSE
  /\ appState = "running"
  /\ visible = FALSE
  /\ decisions = <<>>
  /\ open = {}
  /\ registered = {}
  /\ queues \in SUBSET QueueNames
  /\ jobs = <<>>
  /\ idCounter = 0
  /\ accepted = <<>>
  /\ signal = NoSignal
  /\ last = NoCall

(***************************************************************************)
(* Startup                                                                 *)
(***************************************************************************)
\* Server::start(): binds the endpoint, or fails and emits connectionError,
\* which reaches the slot only if it is connected by then.
ServerStart(outcome, connected) ==
  /\ listening' = (outcome = NoError)
  /\ signal' = IF outcome # NoError /\ connected
                 THEN [name |-> "connectionError", err |-> outcome]
                 ELSE NoSignal

\* What the constructor body does with the server, in order: lines 60-67.
CtorStartsFirst == <<"start", "connectError", "connectNewConnection">>
CtorSteps == <<"connectError", "connectNewConnection", "start">>

Precedes(steps, a, b) ==
  \E i, j \in 1..Len(steps) : i < j /\ steps[i] = a /\ steps[j] = b

\* MainWindow::MainWindow(): connect both server signals, then start.
MainWindowCtor ==
  /\ ~constructed
  /\ constructed' = TRUE
  /\ errorConnected' = ("connectError" \in Range(CtorSteps))
  /\ connConnected' = ("connectNewConnection" \in Range(CtorSteps))
  /\ \E outcome \in SocketErrors \cup {NoError} :
       ServerStart(outcome, Precedes(CtorSteps, "connectError", "start"))
  /\ UNCHANGED <<appState, visible, decisions>>
  /\ UNCHANGED <<registered, open, accepted, last>>
  /\ UNCHANGED directoryVars

\* connectionError reaches the slot: the one start() emitted, or one the
\* server emits for a socket error while it is serving.
Emitted(err) ==
  /\ constructed
  /\ appState = "running"
  /\ errorConnected
  /\ IF signal = NoSignal
       THEN listening /\ err = OtherError
       ELSE signal.name = "connectionError" /\ signal.err = err

\* err == QAbstractSocket::AddressInUseError
AllErrorsAreConflicts(err) == TRUE
IsConflict(err) == err = AddressInUseError

\* !ok || index == 1, on the outcome of QInputDialog::getItem
TerminateOnlyIfBoth(ok, index) == ~ok /\ index = 1
Terminate(ok, index) == ~ok \/ index = 1

Effect(name) == [op |-> name]

\* What handleServerError does, in order, for this error and prompt outcome.
ServerErrorEffectsNoElse(err, ok, index) ==
  IF IsConflict(err)
    THEN (IF Terminate(ok, index)
            THEN <<Effect("getItem"), Effect("hide"), Effect("exit")>>
            ELSE <<Effect("getItem")>>)
         \o <<Effect("forceStart")>>
    ELSE <<Effect("warning")>>

ServerErrorEffectsUndecided(err, ok, index) ==
  IF IsConflict(err)
    THEN IF ~ok
           THEN <<Effect("getItem")>>
           ELSE IF index = 1
                  THEN <<Effect("getItem"), Effect("hide"), Effect("exit")>>
                  ELSE <<Effect("getItem"), Effect("forceStart")>>
    ELSE <<Effect("warning")>>

ServerErrorEffects(err, ok, index) ==
  IF IsConflict(err)
    THEN IF Terminate(ok, index)
           THEN <<Effect("getItem"), Effect("hide"), Effect("exit")>>
           ELSE <<Effect("getItem"), Effect("forceStart")>>
    ELSE <<Effect("warning")>>

Did(effects, name) == \E i \in 1..Len(effects) : effects[i].op = name

\* QInputDialog::getItem over two choices, not editable: the choice made and
\* whether the dialog was confirmed.
PromptOutcomes == [ok : BOOLEAN, index : {0, 1}]
NoPrompt == [ok |-> FALSE, index |-> 0]

handleServerError(err, ok, index) ==
  /\ Emitted(err)
  /\ signal' = NoSignal
  /\ LET effects == ServerErrorEffects(err, ok, index)
     IN /\ last' = Call("handleServerError", NoConn,
                        [kind |-> "connectionError", err |-> err, ok |-> ok,
                         index |-> index],
                        effects, TRUE)
        /\ visible' = IF Did(effects, "hide") THEN FALSE ELSE visible
        /\ appState' = IF Did(effects, "exit") THEN "exiting" ELSE appState
        \* Server::forceStart(): take the endpoint over from its holder
        /\ listening' = IF Did(effects, "forceStart") THEN TRUE ELSE listening
        /\ decisions' =
             IF Did(effects, "exit")
               THEN Append(decisions, "KeepExistingAndExit")
               ELSE IF Did(effects, "forceStart")
                      THEN Append(decisions, "ForceReplace")
                      ELSE decisions
  /\ UNCHANGED ctorVars
  /\ UNCHANGED <<registered, open, accepted>>
  /\ UNCHANGED directoryVars

(***************************************************************************)
(* Collaborators of the router                                             *)
(***************************************************************************)
\* QueueManager::lookupQueue: the queue of that name, or NULL.
lookupQueue(name) == IF name \in queues THEN name ELSE NullQueue

\* QueueManager::toQueueList: the names of the queues, each once, in any order.
toQueueList ==
  {s \in UNION {[1..n -> queues] : n \in 0..Cardinality(queues)} :
     /\ Len(s) = Cardinality(queues)
     /\ Range(s) = queues}

\* JobManager::lookupMoleQueueId: the job carrying that id, or NULL.
lookupMoleQueueId(moleQueueId) ==
  IF \E p \in 1..Len(jobs) : jobs[p].moleQueueId = moleQueueId
    THEN CHOOSE p \in 1..Len(jobs) : jobs[p].moleQueueId = moleQueueId
    ELSE NULL

\* The id a new job gets from the process-wide counter.
StaleMoleQueueId == IF idCounter = 0 THEN 1 ELSE idCounter
NextMoleQueueId == idCounter + 1

\* JobManager::newJob: a job object for a decoded submission.
newJob(queue) ==
  [moleQueueId |-> NextMoleQueueId, queue |-> queue, status |-> "None"]

\* Queue::submitJob: the queue takes the job, or refuses it.
submitJob(js, req, ok) == IF ok THEN [js EXCEPT ![req].status = "Submitted"] ELSE js

\* QString::arg: the place marker %1 replaced by the argument.
ArgDropped(fmt, a) == SelectSeq(fmt, LAMBDA t : t # "%1")
Arg(fmt, a) == [i \in 1..Len(fmt) |-> IF fmt[i] = "%1" THEN a ELSE fmt[i]]

\* tr("Unknown queue: %1")
UnknownQueueFormat == <<"Unknown queue: ", "%1">>

\* What the ServerConnection send methods are handed.
QueueListResponse(list) == [kind |-> "QueueList", names |-> list]
SuccessfulSubmissionResponse(req) ==
  [kind |-> "SubmissionAccepted", job |-> req,
   moleQueueId |-> jobs[req].moleQueueId]
FailedSubmissionResponse(req, code, msg) ==
  [kind |-> "SubmissionRejected", job |-> req, code |-> code, message |-> msg]
SuccessfulCancellationResponse(req) ==
  [kind |-> "CancellationAccepted", job |-> req]

Send(conn, resp) == [op |-> "send", conn |-> conn, response |-> resp]
Lookup(what, key, found) ==
  [op |-> "lookup", directory |-> what, key |-> key, found |-> found]
Submit(queue, req, ok) ==
  [op |-> "submitJob", queue |-> queue, job |-> req, ok |-> ok]

(***************************************************************************)
(* Connections                                                             *)
(***************************************************************************)
\* The server accepts conn and emits newConnection; MainWindow::newConnection,
\* if it is connected to that signal, connects the three request signals of
\* conn.
newConnection(conn) ==
  /\ Idle
  /\ listening
  /\ conn = Cardinality(open) + 1
  /\ open' = open \cup {conn}
  /\ registered' = IF connConnected THEN registered \cup {conn} ELSE registered
  /\ UNCHANGED <<accepted, signal, last>>
  /\ UNCHANGED arbiterVars
  /\ UNCHANGED ctorVars
  /\ UNCHANGED directoryVars

\* A connection decodes a submission: the job manager makes the Job, and the
\* connection emits jobSubmissionRequested with it.
submissionReceived(conn, queue) ==
  /\ Idle
  /\ conn \in registered
  /\ Len(jobs) < MaxJobs
  /\ jobs' = Append(jobs, newJob(queue))
  /\ idCounter' = NextMoleQueueId
  /\ signal' = [name |-> "jobSubmissionRequested", sender |-> conn,
                request |-> [kind |-> "SubmitJob", job |-> Len(jobs) + 1]]
  /\ UNCHANGED <<registered, open, accepted, last, queues>>
  /\ UNCHANGED arbiterVars
  /\ UNCHANGED ctorVars

\* The ids a client may ask to cancel: the issued ones, and one never issued.
MoleQueueIds == 1..(idCounter + 1)

(***************************************************************************)
(* Request router                                                          *)
(***************************************************************************)
\* qobject_cast<ServerConnection*>(sender())
IsServerConnection(sender) == sender \in Conns

\* The slot runs because a registered connection emits its signal, or
\* because something that is not a connection calls it.
InvokedWhileInFlight(sender) ==
  /\ constructed
  /\ appState = "running"
  /\ IsServerConnection(sender) => sender \in registered

Invoked(sender) ==
  /\ Idle
  /\ IsServerConnection(sender) => sender \in registered

\* queueListRequested past the sender check: line 158
QueueListLost(conn, list) == <<>>
QueueListShort(conn, list) ==
  <<Send(conn, QueueListResponse(IF list = <<>> THEN list ELSE Tail(list)))>>
QueueListEffects(conn, list) == <<Send(conn, QueueListResponse(list))>>

\* MainWindow::queueListRequested
queueListRequestedUnchecked(sender) ==
  /\ Invoked(sender)
  /\ UNCHANGED signal
  /\ \E list \in toQueueList :
       last' = Call("queueListRequested", sender, [kind |-> "ListQueues"],
                    QueueListEffects(sender, list), TRUE)
  /\ UNCHANGED accepted
  /\ UNCHANGED <<registered, open>>
  /\ UNCHANGED arbiterVars
  /\ UNCHANGED ctorVars
  /\ UNCHANGED directoryVars

queueListRequested(sender) ==
  /\ Invoked(sender)
  /\ UNCHANGED signal
  /\ IF ~IsServerConnection(sender)
       THEN last' = Call("queueListRequested", sender, None, <<>>, TRUE)
       ELSE \E list \in toQueueList :
              last' = Call("queueListRequested", sender, [kind |-> "ListQueues"],
                           QueueListEffects(sender, list), TRUE)
  /\ UNCHANGED accepted
  /\ UNCHANGED <<registered, open>>
  /\ UNCHANGED arbiterVars
  /\ UNCHANGED ctorVars
  /\ UNCHANGED directoryVars

\* jobSubmissionRequested past the sender check: lines 173-186
SubmitThenConfirm(conn, req, ok) ==
  LET name == jobs[req].queue
      queue == lookupQueue(name)
  IN IF queue = NullQueue
       THEN <<Lookup("queue", name, FALSE),
              Send(conn, FailedSubmissionResponse(req, InvalidQueue,
                                                  Arg(UnknownQueueFormat, name)))>>
       ELSE <<Lookup("queue", name, TRUE),
              Submit(queue, req, ok),
              Send(conn, SuccessfulSubmissionResponse(req))>>

RejectWhenSubmitFails(conn, req, ok) ==
  LET name == jobs[req].queue
      queue == lookupQueue(name)
      failed == Send(conn, FailedSubmissionResponse(req, InvalidQueue,
                                                    Arg(UnknownQueueFormat, name)))
  IN IF queue = NullQueue
       THEN <<Lookup("queue", name, FALSE), failed>>
       ELSE <<Lookup("queue", name, TRUE),
              Send(conn, SuccessfulSubmissionResponse(req)),
              Submit(queue, req, ok)>>
            \o (IF ok THEN <<>> ELSE <<failed>>)

SubmissionEffectsNoReturn(conn, req, ok) ==
  LET name == jobs[req].queue
      queue == lookupQueue(name)
  IN (IF queue = NullQueue
        THEN <<Lookup("queue", name, FALSE),
               Send(conn, FailedSubmissionResponse(req, InvalidQueue,
                                                   Arg(UnknownQueueFormat, name)))>>
        ELSE <<Lookup("queue", name, TRUE)>>)
     \o <<Send(conn, SuccessfulSubmissionResponse(req)), Submit(queue, req, ok)>>

RetryFailedSubmit(conn, req, ok) ==
  LET name == jobs[req].queue
      queue == lookupQueue(name)
  IN IF queue = NullQueue
       THEN <<Lookup("queue", name, FALSE),
              Send(conn, FailedSubmissionResponse(req, InvalidQueue,
                                                  Arg(UnknownQueueFormat, name)))>>
       ELSE <<Lookup("queue", name, TRUE),
              Send(conn, SuccessfulSubmissionResponse(req)),
              Submit(queue, req, ok)>>
            \o (IF ok THEN <<>> ELSE <<Submit(queue, req, TRUE)>>)

SubmissionEffects(conn, req, ok) ==
  LET name == jobs[req].queue
      queue == lookupQueue(name)
  IN IF queue = NullQueue
       THEN <<Lookup("queue", name, FALSE),
              Send(conn, FailedSubmissionResponse(req, InvalidQueue,
                                                  Arg(UnknownQueueFormat, name)))>>
       ELSE <<Lookup("queue", name, TRUE),
              Send(conn, SuccessfulSubmissionResponse(req)),
              Submit(queue, req, ok)>>

Responses(effects) ==
  SelectSeq(effects, LAMBDA e : e.op = "send")

AcceptedIds(effects) ==
  LET sent == SelectSeq(effects,
                LAMBDA e : e.op = "send" /\ e.response.kind = "SubmissionAccepted")
  IN [i \in 1..Len(sent) |-> sent[i].response.moleQueueId]

RECURSIVE Submitted(_, _)
Submitted(effects, js) ==
  IF effects = <<>> THEN js
  ELSE LET e == Head(effects)
       IN Submitted(Tail(effects),
                    IF e.op = "submitJob" THEN submitJob(js, e.job, e.ok) ELSE js)

jobSubmissionRequested(sender, ok) ==
  /\ constructed
  /\ appState = "running"
  /\ IF IsServerConnection(sender)
       THEN signal.name = "jobSubmissionRequested" /\ signal.sender = sender
       ELSE signal = NoSignal
  /\ signal' = NoSignal
  /\ IF ~IsServerConnection(sender)
       THEN /\ last' = Call("jobSubmissionRequested", sender, None, <<>>, TRUE)
            /\ UNCHANGED <<accepted, jobs>>
       ELSE LET effects == SubmissionEffects(sender, signal.request.job, ok)
            IN /\ last' = Call("jobSubmissionRequested", sender, signal.request,
                               effects, TRUE)
               /\ accepted' = accepted \o AcceptedIds(effects)
               /\ jobs' = Submitted(effects, jobs)
  /\ UNCHANGED <<registered, open, queues, idCounter>>
  /\ UNCHANGED arbiterVars
  /\ UNCHANGED ctorVars

\* What a build can do when the send method is handed a NULL job.
NullJobOutcomes == {"sent", "crash"}

\* jobCancellationRequested past the sender check: lines 202-207
CancellationWithoutJob(conn, moleQueueId) ==
  LET req == lookupMoleQueueId(moleQueueId)
  IN <<Lookup("job", moleQueueId, req # NULL),
       Send(conn, SuccessfulCancellationResponse(NULL))>>

CancellationEffects(conn, moleQueueId) ==
  LET req == lookupMoleQueueId(moleQueueId)
  IN <<Lookup("job", moleQueueId, req # NULL),
       Send(conn, SuccessfulCancellationResponse(req))>>

jobCancellationRequested(sender, moleQueueId, outcome) ==
  /\ Invoked(sender)
  /\ UNCHANGED signal
  /\ IF ~IsServerConnection(sender)
       THEN /\ last' = Call("jobCancellationRequested", sender, None, <<>>, TRUE)
            /\ UNCHANGED appState
       ELSE LET effects == CancellationEffects(sender, moleQueueId)
                request == [kind |-> "CancelJob", moleQueueId |-> moleQueueId]
                null == \E i \in 1..Len(effects) :
                          /\ effects[i].op = "send"
                          /\ effects[i].response.kind = "CancellationAccepted"
                          /\ effects[i].response.job = NULL
            IN IF null /\ outcome = "crash"
                 THEN /\ last' = Call("jobCancellationRequested", sender,
                                      request, <<effects[1]>>, FALSE)
                      /\ appState' = "crashed"
                 ELSE /\ last' = Call("jobCancellationRequested", sender,
                                      request, effects, TRUE)
                      /\ UNCHANGED appState
  /\ UNCHANGED <<registered, open, accepted>>
  /\ UNCHANGED <<listening, visible, decisions>>
  /\ UNCHANGED ctorVars
  /\ UNCHANGED directoryVars

(***************************************************************************)
(* The user                                                                *)
(***************************************************************************)
\* MainWindow::showQueueManager: the dialog adds or removes a queue.
showQueueManager(name) ==
  /\ Idle
  /\ queues' = IF name \in queues THEN queues \ {name} ELSE queues \cup {name}
  /\ UNCHANGED <<jobs, idCounter>>
  /\ UNCHANGED <<registered, open, accepted, signal, last>>
  /\ UNCHANGED arbiterVars
  /\ UNCHANGED ctorVars

\* The inputs of each slot that its code can read on the path it takes.
PromptsFor(err) == IF IsConflict(err) THEN PromptOutcomes ELSE {NoPrompt}
SubmitResultsFor(sender) == IF IsServerConnection(sender) THEN BOOLEAN ELSE {TRUE}
CancelIdsFor(sender) == IF IsServerConnection(sender) THEN MoleQueueIds ELSE {1}
OutcomesFor(sender, moleQueueId) ==
  IF IsServerConnection(sender) /\ lookupMoleQueueId(moleQueueId) = NULL
    THEN NullJobOutcomes
    ELSE {"sent"}

Next ==
  \/ MainWindowCtor
  \/ \E err \in SocketErrors : \E prompt \in PromptsFor(err) :
       handleServerError(err, prompt.ok, prompt.index)
  \/ \E conn \in Conns : newConnection(conn)
  \/ \E conn \in Conns, queue \in QueueNames : submissionReceived(conn, queue)
  \/ \E sender \in Senders : queueListRequested(sender)
  \/ \E sender \in Senders : \E ok \in SubmitResultsFor(sender) :
       jobSubmissionRequested(sender, ok)
  \/ \E sender \in Senders : \E moleQueueId \in CancelIdsFor(sender) :
       \E outcome \in OutcomesFor(sender, moleQueueId) :
         jobCancellationRequested(sender, moleQueueId, outcome)
  \/ \E name \in QueueNames : showQueueManager(name)

Spec == Init /\ [][Next]_vars

(***************************************************************************)
(* Properties of the request router                                        *)
(***************************************************************************)
RequestSlots ==
  {"queueListRequested", "jobSubmissionRequested", "jobCancellationRequested"}

\* The last thing to run was a request slot, for a signal of a connection.
Dispatched(name) ==
  /\ last.op = name
  /\ IsServerConnection(last.sender)

SentOn(effects) == {effects[i].conn : i \in {j \in 1..Len(effects) : effects[j].op = "send"}}

\* C1: once a request slot has run to its end for a registered connection,
\* exactly one response has been sent, on that connection, and none on any
\* other connection.
C1_OneResponseOnSender ==
  \A name \in RequestSlots :
    Dispatched(name) /\ last.completed =>
      /\ Len(Responses(last.effects)) = 1
      /\ SentOn(last.effects) = {last.sender}
      /\ last.sender \in registered

\* Two connections are open, requests of both have been served, and the
\* second one has just been answered.
C1_Witness ==
  /\ registered = Conns
  /\ \E name \in RequestSlots : Dispatched(name) /\ last.completed
  /\ last.sender = MaxConns
  /\ accepted # <<>>
  /\ Len(Responses(last.effects)) = 1

\* C2: when the lookup finds the queue, the accepted response has been sent
\* on the requesting connection before the queue's submitJob is called, and
\* submitJob is never called without that response before it.
C2_AcceptedBeforeSubmit ==
  Dispatched("jobSubmissionRequested") =>
    LET e == last.effects IN
      /\ e[1].op = "lookup"
      /\ e[1].found =>
            \E j \in 1..Len(e) : e[j].op = "submitJob"
      /\ \A j \in 1..Len(e) :
            e[j].op = "submitJob" =>
              \E i \in 1..(j - 1) :
                /\ e[i].op = "send"
                /\ e[i].conn = last.sender
                /\ e[i].response.kind = "SubmissionAccepted"
                /\ e[i].response.job = e[j].job
                /\ e[j].job = last.request.job

C2_Witness ==
  /\ Dispatched("jobSubmissionRequested")
  /\ \E j \in 1..Len(last.effects) : last.effects[j].op = "submitJob"

\* C3: when the lookup reports the named queue absent, the only response is
\* SubmissionRejected with code InvalidQueue and a message containing the
\* name, on the requesting connection, and no submitJob is called.
C3_UnknownQueueRejected ==
  Dispatched("jobSubmissionRequested") /\ ~last.effects[1].found =>
    LET e == last.effects
        r == Responses(e)
        name == jobs[last.request.job].queue
    IN /\ e[1].key = name
       /\ Len(r) = 1
       /\ r[1].conn = last.sender
       /\ r[1].response.kind = "SubmissionRejected"
       /\ r[1].response.job = last.request.job
       /\ r[1].response.code = InvalidQueue
       /\ \E i \in 1..Len(r[1].response.message) : r[1].response.message[i] = name
       /\ ~Did(e, "submitJob")
       /\ jobs[last.request.job].status = "None"

C3_Witness ==
  /\ Dispatched("jobSubmissionRequested")
  /\ ~last.effects[1].found
  /\ jobs[last.request.job].queue = "remote"
  /\ queues = {"local"}
\* C4 (as claimed): cancelling an id the job manager does not know is answered
\* with CancellationRejected on the requesting connection, never with
\* CancellationAccepted and never with a response built from a NULL job.
C4_UnknownCancelRejected ==
  Dispatched("jobCancellationRequested") /\ ~last.effects[1].found =>
    LET r == Responses(last.effects)
    IN /\ last.completed
       /\ Len(r) = 1
       /\ r[1].conn = last.sender
       /\ r[1].response.kind = "CancellationRejected"
       /\ \A i \in 1..Len(r) : r[i].response.kind # "CancellationAccepted"

\* C5: cancelling an id carried by an earlier accepted submission is answered
\* with CancellationAccepted for the job of that id on the requesting
\* connection; every accepted id stays known to the job manager, so this
\* holds after any submissions and cancellations, repeated ones included.
C5_AcceptedIdCancels ==
  /\ \A i \in 1..Len(accepted) :
       /\ lookupMoleQueueId(accepted[i]) # NULL
       /\ jobs[lookupMoleQueueId(accepted[i])].moleQueueId = accepted[i]
  /\ Dispatched("jobCancellationRequested")
       /\ last.request.moleQueueId \in Range(accepted) =>
         LET r == Responses(last.effects)
         IN /\ last.completed
            /\ last.effects[1].found
            /\ Len(r) = 1
            /\ r[1].conn = last.sender
            /\ r[1].response.kind = "CancellationAccepted"
            /\ r[1].response.job # NULL
            /\ jobs[r[1].response.job].moleQueueId = last.request.moleQueueId

\* The first of two accepted jobs is cancelled from the second connection.
C5_Witness ==
  /\ Dispatched("jobCancellationRequested")
  /\ Len(accepted) = 2
  /\ last.request.moleQueueId = accepted[1]
  /\ last.sender = 2
  /\ last.completed

\* C9: whatever submitJob returns, the response of the request is the one
\* SubmissionAccepted sent before it; nothing is sent after submitJob.
C9_SubmitResultNotReported ==
  Dispatched("jobSubmissionRequested") /\ Did(last.effects, "submitJob") =>
    LET e == last.effects
        r == Responses(e)
    IN /\ Len(r) = 1
       /\ r[1].conn = last.sender
       /\ r[1].response.kind = "SubmissionAccepted"
       /\ r[1].response.job = last.request.job
       /\ e[Len(e)].op = "submitJob"
       /\ last.completed

\* The queue refused the job.
C9_Witness ==
  /\ Dispatched("jobSubmissionRequested")
  /\ \E j \in 1..Len(last.effects) :
       last.effects[j].op = "submitJob" /\ ~last.effects[j].ok
  /\ jobs[last.request.job].status = "None"

\* C10: the id carried by an accepted response is the id of one job only,
\* is the id that job has, and differs from the id of every other accepted
\* response.
C10_AcceptedIdsUnique ==
  /\ \A i, j \in 1..Len(accepted) : accepted[i] = accepted[j] => i = j
  /\ \A i \in 1..Len(accepted) :
       Cardinality({p \in 1..Len(jobs) : jobs[p].moleQueueId = accepted[i]}) = 1
  /\ Dispatched("jobSubmissionRequested") =>
       \A i \in 1..Len(last.effects) :
         LET e == last.effects[i] IN
           e.op = "send" /\ e.response.kind = "SubmissionAccepted" =>
             /\ e.response.moleQueueId = jobs[e.response.job].moleQueueId
             /\ e.response.moleQueueId = accepted[Len(accepted)]
             /\ e.response.moleQueueId \in 1..idCounter

C10_Witness ==
  /\ Len(accepted) = 2
  /\ accepted[1] # accepted[2]
  /\ Dispatched("jobSubmissionRequested")
  /\ Did(last.effects, "submitJob")
\* C6: a queue list request is answered with one QueueList whose names are
\* exactly the names the queue manager holds when the slot runs, each once;
\* there is no other outcome, and no queues gives the empty list.
C6_QueueListIsDirectory ==
  [][last' # last /\ last'.op = "queueListRequested"
       /\ IsServerConnection(last'.sender) =>
         LET r == Responses(last'.effects)
         IN /\ last'.completed
            /\ Len(last'.effects) = 1
            /\ Len(r) = 1
            /\ r[1].conn = last'.sender
            /\ r[1].response.kind = "QueueList"
            /\ Range(r[1].response.names) = queues
            /\ Len(r[1].response.names) = Cardinality(queues)]_vars

\* Both queues are listed to a connection after the user added one.
C6_Witness ==
  /\ Dispatched("queueListRequested")
  /\ Len(last.effects[1].response.names) = 2
  /\ Range(last.effects[1].response.names) = {"local", "remote"}

(***************************************************************************)
(* Properties of the startup arbiter                                       *)
(***************************************************************************)
ConflictHandled ==
  /\ last.op = "handleServerError"
  /\ last.request.err = AddressInUseError

\* C7: after a bind conflict, ForceReplace means forceStart was called and
\* the server holds the endpoint from then on, KeepExistingAndExit means the
\* window asked the application to exit and the server never listens; the
\* handler never does both.
C7_DecisionOutcomes ==
  /\ Len(decisions) <= 1
  /\ "ForceReplace" \in Range(decisions) =>
       /\ appState # "exiting"
       /\ appState = "running" => listening
  /\ "KeepExistingAndExit" \in Range(decisions) =>
       /\ appState = "exiting"
       /\ ~listening
       /\ registered = {}
  /\ ConflictHandled =>
       LET e == last.effects
       IN /\ Did(e, "forceStart") \/ Did(e, "exit")
          /\ Did(e, "forceStart") =>
               /\ ~Did(e, "exit")
               /\ ~Did(e, "hide")
               /\ decisions = <<"ForceReplace">>
          /\ Did(e, "exit") =>
               /\ ~Did(e, "forceStart")
               /\ decisions = <<"KeepExistingAndExit">>

\* The new server took the endpoint over and serves a connection.
C7_Witness ==
  /\ decisions = <<"ForceReplace">>
  /\ listening
  /\ registered # {}
  /\ Dispatched("queueListRequested")

\* C8: the prompt is shown for AddressInUseError only; any other error gets
\* a warning and nothing else: no prompt, no forceStart, no exit, and the
\* router can go on dispatching.
C8_OtherErrorsOnlyNotify ==
  last.op = "handleServerError" =>
    /\ Did(last.effects, "getItem") => last.request.err = AddressInUseError
    /\ last.request.err # AddressInUseError =>
         /\ last.effects = <<Effect("warning")>>
         /\ appState = "running"
         /\ registered # {} =>
              ENABLED (\E c \in registered :
                         \/ queueListRequested(c)
                         \/ \E ok \in BOOLEAN : jobSubmissionRequested(c, ok))

\* A socket error is reported while connections are being served.
C8_Witness ==
  /\ last.op = "handleServerError"
  /\ last.request.err = OtherError
  /\ registered = Conns
  /\ accepted # <<>>
\* Where the arbiter is: a conflict is detected when start() has reported
\* AddressInUseError and the handler has not returned yet.
ArbiterState ==
  IF signal.name = "connectionError" /\ signal.err = AddressInUseError
    THEN "ConflictDetected"
    ELSE IF decisions = <<>> THEN "Idle" ELSE "Resolved"

Decisions == {"KeepExistingAndExit", "ForceReplace"}

\* C12: the arbiter goes Idle -> ConflictDetected -> decision -> Resolved: no
\* decision exists before a conflict is detected, the handler leaves the
\* conflict resolved with exactly one decision, and no second one is taken.
C12_OneDecisionPerConflict ==
  /\ ArbiterState = "ConflictDetected" =>
       /\ decisions = <<>>
       /\ last = NoCall
       /\ ~listening
  /\ ArbiterState = "Resolved" =>
       /\ Len(decisions) = 1
       /\ decisions[1] \in Decisions
  /\ ConflictHandled =>
       /\ ArbiterState = "Resolved"
       /\ Cardinality({i \in 1..Len(last.effects) :
                         last.effects[i].op \in {"exit", "forceStart"}}) = 1
       /\ last.effects[1] = Effect("getItem")
       /\ last.completed

\* The prompt was dismissed and the conflict is resolved all the same.
C12_Witness ==
  /\ ConflictHandled
  /\ ~last.request.ok
  /\ ArbiterState = "Resolved"

\* C17: forceStart is called only when the prompt was confirmed on the
\* 'continue running' choice; a dismissed prompt or the 'terminate' choice
\* hides the window, asks the application to exit and never calls forceStart.
C17_ForceOnlyWhenConfirmed ==
  ConflictHandled =>
    LET confirmed == last.request.ok /\ last.request.index = 0
    IN /\ Did(last.effects, "forceStart") <=> confirmed
       /\ ~confirmed =>
            /\ last.effects = <<Effect("getItem"), Effect("hide"), Effect("exit")>>
            /\ decisions = <<"KeepExistingAndExit">>
            /\ appState = "exiting"
            /\ ~visible
            /\ ~listening
       /\ confirmed =>
            /\ decisions = <<"ForceReplace">>
            /\ appState # "exiting"

\* The prompt was dismissed while the 'continue running' choice was selected.
C17_Witness ==
  /\ ConflictHandled
  /\ ~last.request.ok
  /\ last.request.index = 0
  /\ appState = "exiting"

\* C16: a request slot whose sender is not a ServerConnection returns at
\* once: it sends nothing, looks nothing up and submits nothing.
C16_NoConnectionNoEffect ==
  \A name \in RequestSlots :
    last.op = name /\ ~IsServerConnection(last.sender) =>
      /\ last.effects = <<>>
      /\ last.request = None
      /\ last.completed

\* A slot was called by something else while connections were served.
C16_Witness ==
  /\ last.op \in RequestSlots
  /\ ~IsServerConnection(last.sender)
  /\ registered # {}
  /\ accepted # <<>>
\* A step in which a request slot ran.
SlotRan ==
  /\ last' # last
  /\ last'.op \in RequestSlots

Count(effects, name) ==
  Cardinality({i \in 1..Len(effects) : effects[i].op = name})

\* C13: a queue list request, a cancellation, or a submission rejected for
\* an unknown queue leaves the queues, the jobs and every job's status as
\* they were; an acknowledged cancellation changes no job.
C13_RouterOnlyReads ==
  [][SlotRan /\ (last'.op = "jobSubmissionRequested"
                   /\ IsServerConnection(last'.sender)
                     => ~last'.effects[1].found) =>
       /\ queues' = queues
       /\ jobs' = jobs
       /\ idCounter' = idCounter]_vars

\* A submitted job was cancelled, the cancellation was acknowledged, and the
\* job is still there, submitted.
C13_Witness ==
  /\ Dispatched("jobCancellationRequested")
  /\ last.effects[1].found
  /\ Len(Responses(last.effects)) = 1
  /\ \E p \in 1..Len(jobs) :
       /\ jobs[p].moleQueueId = last.request.moleQueueId
       /\ jobs[p].status = "Submitted"

\* C15: a request is looked up, answered and submitted at most once; a
\* rejection or a refused submitJob ends its dispatch, and submitJob is
\* called only for the job of the submission request being dispatched, which
\* was never submitted before.
C15_NoRetry ==
  [][SlotRan =>
       LET e == last'.effects IN
         /\ Count(e, "lookup") <= 1
         /\ Count(e, "submitJob") <= 1
         /\ Count(e, "send") <= 1
         /\ signal' = NoSignal
         /\ Did(e, "submitJob") =>
              /\ last'.op = "jobSubmissionRequested"
              /\ signal.name = "jobSubmissionRequested"
              /\ signal.request = last'.request
              /\ signal.request.job = Len(jobs)
              /\ jobs[signal.request.job].status = "None"
              /\ jobs[signal.request.job].moleQueueId \notin Range(accepted)
              /\ e[Len(e)].op = "submitJob"
              /\ e[Len(e)].job = signal.request.job
         /\ last'.op = "jobSubmissionRequested" /\ IsServerConnection(last'.sender)
              /\ ~e[1].found =>
                /\ Len(e) = 2
                /\ e[2].op = "send"]_vars

\* The first submission was refused by its queue or rejected, nothing was
\* done about it since, and a second submission has been passed to a queue.
C15_Witness ==
  /\ Dispatched("jobSubmissionRequested")
  /\ last.request.job = 2
  /\ Did(last.effects, "submitJob")
  /\ jobs[1].status = "None"

\* A submission is in flight: its signal is emitted, its slot has not ended.
InFlight == signal.name = "jobSubmissionRequested"

\* C11: while a request is being dispatched, the only thing that happens is
\* the rest of that dispatch, and everything a slot does in one run belongs
\* to the one request it runs for.
C11_RunToCompletion ==
  [][/\ InFlight =>
          /\ last'.op = "jobSubmissionRequested"
          /\ last'.sender = signal.sender
          /\ last'.request = signal.request
          /\ signal' = NoSignal
          /\ registered' = registered
          /\ queues' = queues
     /\ SlotRan /\ IsServerConnection(last'.sender) =>
          /\ ~InFlight => signal' = NoSignal
          /\ \A i \in 1..Len(last'.effects) :
               LET e == last'.effects[i] IN
                 /\ e.op = "send" => e.conn = last'.sender
                 /\ e.op = "submitJob" => e.job = last'.request.job
                 /\ e.op = "lookup" =>
                      e.key = IF last'.op = "jobSubmissionRequested"
                                THEN jobs[last'.request.job].queue
                                ELSE last'.request.moleQueueId]_vars

\* With two connections open and an earlier submission served, a second
\* submission has run from lookup to submitJob.
C11_Witness ==
  /\ registered = Conns
  /\ Dispatched("jobSubmissionRequested")
  /\ Len(last.effects) = 3
  /\ Len(accepted) = 2
  /\ signal = NoSignal
\* C18: both server signals are connected before start(): a failed start is
\* on its way to handleServerError when the constructor returns, and every
\* connection the server accepts is registered, so that no slot runs for a
\* connection that is not.
C18_HooksBeforeStart ==
  /\ ~constructed => open = {} /\ ~listening /\ signal = NoSignal
  /\ constructed => errorConnected /\ connConnected
  /\ constructed /\ ~listening /\ last = NoCall => signal.name = "connectionError"
  /\ open = registered
  /\ \A name \in RequestSlots : Dispatched(name) => last.sender \in registered

\* The start failed on a used address, the arbiter took the endpoint over,
\* and the connections accepted since are registered and served.
C18_Witness ==
  /\ decisions = <<"ForceReplace">>
  /\ open = Conns
  /\ registered = Conns
  /\ Dispatched("queueListRequested")
  /\ last.sender = MaxConns
(***************************************************************************)
(* Progress of the dispatcher                                              *)
(***************************************************************************)
\* An emitted signal is delivered by a direct call of the connected slot
\* (lines 142-146), so the slot of a signal in flight is always taken.
Dispatcher ==
  \/ \E sender \in Senders : queueListRequested(sender)
  \/ \E sender \in Senders : \E ok \in SubmitResultsFor(sender) :
       jobSubmissionRequested(sender, ok)
  \/ \E sender \in Senders : \E moleQueueId \in CancelIdsFor(sender) :
       \E outcome \in OutcomesFor(sender, moleQueueId) :
         jobCancellationRequested(sender, moleQueueId, outcome)

FairSpec == Spec /\ WF_vars(Dispatcher)

\* The slot has been entered for a request of a connection, and no response
\* has been sent for it.
Unanswered ==
  /\ last.op \in RequestSlots
  /\ IsServerConnection(last.sender)
  /\ Responses(last.effects) = <<>>

Answered ==
  /\ last.op \in RequestSlots
  /\ IsServerConnection(last.sender)
  /\ Len(Responses(last.effects)) = 1
  /\ SentOn(last.effects) = {last.sender}

\* A submission in flight is answered, whatever connections are open and
\* whatever submitJob returns; its job has at most been handed to its queue.
C14_SubmissionAnswered ==
  \A conn \in Conns : \A req \in 1..MaxJobs :
    (InFlight /\ signal.sender = conn /\ signal.request.job = req)
      ~> (/\ Answered
          /\ last.op = "jobSubmissionRequested"
          /\ last.sender = conn
          /\ last.request.job = req
          /\ jobs[req].status \in {"None", "Submitted"})

\* C14: every request of a registered connection is eventually answered:
\* a submission in flight gets its response, and a request whose slot has
\* been entered does not stay without one.
C14_EveryRequestAnswered ==
  /\ C14_SubmissionAnswered
  /\ Unanswered ~> Answered
====
